---- MODULE Spec2Model ----
(***************************************************************************)
(* A model of the inpainting gateway: the token-bucket limiter, the        *)
(* rate-limit middleware, the inbound validation pipeline, the image       *)
(* normalizer and the NanoBanana client, as state machines.                *)
(*                                                                         *)
(* Numbers.  The limiter's token count is a float in the source.  Here a   *)
(* token count is kept in units of 1/TokenScale token and a refill rate in *)
(* units of 1/TokenScale token per second (requests_per_minute / 60.0      *)
(* tokens per second is the integer requests_per_minute in that unit), so  *)
(* that with clock readings in whole seconds every value is an exact       *)
(* integer.                                                                *)
(***************************************************************************)
EXTENDS Integers, Sequences, FiniteSets, TLC

VARIABLES
    buckets,    \* limiter harness: bucket id -> TokenBucketRateLimit object
    call,       \* limiter harness: the last consume() call and what it returned
    fresh,      \* limiter harness: per bucket, the run of consume(1) calls made
                \* with zero elapsed time since construction
    now,        \* middleware: what time.time() reads (seconds)
    config,     \* middleware: enabled, requests_per_minute, burst_capacity
    limiters,   \* middleware: self.limiters, client key -> limiter
    last_cleanup, \* middleware: self.last_cleanup
    reqs,       \* middleware: the requests in flight
    sent,       \* middleware: the response sent last, and to which request
    scenario,   \* edit: the settings and the request POSTed to /api/edit
    pc,         \* edit: where the handler of that request is
    checks,     \* edit: the validation checks executed so far, in order
    validated,  \* edit: what validate_inpaint_request returned or raised
    image_size, \* edit: the size validate_and_process_image returned
    upstream,   \* edit: outbound calls issued and the reply to the last one
    result,     \* edit: what inpaint_image returned or raised
    http_response, \* edit: the HTTP response of the handler
    filename,   \* sanitize_filename: the argument
    sanitized,  \* sanitize_filename: whether it returned, and what
    health_settings, \* health: nanobanana_key and nanobanana_url
    health      \* health: where GET /api/health is, its probe and response

limVars == <<buckets, call, fresh>>
mwVars == <<now, config, limiters, last_cleanup, reqs, sent>>
editVars == <<scenario, pc, checks, validated, image_size, upstream, result,
              http_response>>
sanVars == <<filename, sanitized>>
vars == <<buckets, call, fresh, now, config, limiters, last_cleanup, reqs, sent,
          scenario, pc, checks, validated, image_size, upstream, result,
          http_response, filename, sanitized, health_settings, health>>
healthVars == <<health_settings, health>>
notLimVars == <<mwVars, editVars, sanVars, healthVars>>
notMwVars == <<limVars, editVars, sanVars, healthVars>>
notEditVars == <<limVars, mwVars, sanVars, healthVars>>
notSanVars == <<limVars, mwVars, editVars, healthVars>>
notHealthVars == <<limVars, mwVars, editVars, sanVars>>

-----------------------------------------------------------------------------
(* Bounds of the model *)

MaxCapacity == 2        \* capacities 0..MaxCapacity
MaxNow == 2             \* clock readings 0..MaxNow (seconds)
MaxCalls == 4           \* consume(1) calls tracked in a zero-elapsed run
MaxConsume == 2         \* consume(n) with n in 1..MaxConsume
MaxRuns == 3            \* filenames of up to MaxRuns runs of one character

(* requests_per_minute / 60.0: the divisor that turns a per-minute rate    *)
(* into tokens per second; also the unit of the token counts here.         *)
TokenScale == 60

Min(a, b) == IF a <= b THEN a ELSE b

BucketIds == {"b1", "b2"}
ClockReadings == 0..MaxNow
\* refill rates, in 1/TokenScale token per second: 0, 0.5 and 1 tokens/s
RateChoices == {0, 30, 60}

-----------------------------------------------------------------------------
(* TokenBucketRateLimit *)

\* __init__(capacity, refill_rate), constructed when the clock reads t
TokenBucketRateLimit(capacity, refill_rate, t) ==
    [capacity |-> capacity,
     refill_rate |-> refill_rate,
     tokens |-> capacity * TokenScale,
     last_refill |-> t]

\* a refill that leaves out the last second elapsed
RefilledLate(l, t) ==
    LET time_passed == t - l.last_refill - 1
    IN  Min(l.capacity * TokenScale, l.tokens + (time_passed * l.refill_rate))

\* the refill half of consume(): the token count after adding
\* time_passed * refill_rate, capped at capacity
Refilled(l, t) ==
    LET time_passed == t - l.last_refill
    IN  Min(l.capacity * TokenScale, l.tokens + (time_passed * l.refill_rate))

\* consume() comparing strictly: the last token is never handed out
consume_strict(l, tokens, t) ==
    LET refilled == [l EXCEPT !.tokens = Refilled(l, t), !.last_refill = t]
    IN  IF refilled.tokens > tokens * TokenScale
        THEN [limiter |-> [refilled EXCEPT !.tokens = @ - tokens * TokenScale],
              ok |-> TRUE]
        ELSE [limiter |-> refilled, ok |-> FALSE]

\* consume() that forgets to move the refill timestamp
consume_stale(l, tokens, t) ==
    LET refilled == [l EXCEPT !.tokens = Refilled(l, t)]
    IN  IF refilled.tokens >= tokens * TokenScale
        THEN [limiter |-> [refilled EXCEPT !.tokens = @ - tokens * TokenScale],
              ok |-> TRUE]
        ELSE [limiter |-> refilled, ok |-> FALSE]

\* consume(tokens) when the clock reads t: the limiter afterwards and the
\* value returned
consume(l, tokens, t) ==
    LET refilled == [l EXCEPT !.tokens = Refilled(l, t), !.last_refill = t]
    IN  IF refilled.tokens >= tokens * TokenScale
        THEN [limiter |-> [refilled EXCEPT !.tokens = @ - tokens * TokenScale],
              ok |-> TRUE]
        ELSE [limiter |-> refilled, ok |-> FALSE]

-----------------------------------------------------------------------------
(* The limiter on its own: two limiter objects, consume(n) called on either *)
(* at arbitrary clock readings (time.time() is the wall clock: it may stand *)
(* still or be set back between two calls).                                 *)

NoCall == [id |-> "none", n |-> 0, at |-> 0, ok |-> FALSE]

LimIdle ==
    /\ buckets = [b \in BucketIds |-> TokenBucketRateLimit(0, 0, 0)]
    /\ call = NoCall
    /\ fresh = [b \in BucketIds |-> [zero |-> FALSE, calls |-> 0, oks |-> 0]]

LimInit ==
    /\ \E c1 \in 0..MaxCapacity, c2 \in 0..MaxCapacity, r \in RateChoices,
          t0 \in ClockReadings :
          buckets = [b \in BucketIds |->
                        TokenBucketRateLimit(IF b = "b1" THEN c1 ELSE c2, r, t0)]
    /\ call = NoCall
    /\ fresh = [b \in BucketIds |-> [zero |-> TRUE, calls |-> 0, oks |-> 0]]

\* one consume(n) call on bucket b, the clock reading t
ConsumeCall(b, n, t) ==
    LET res == consume(buckets[b], n, t)
        zero == fresh[b].zero /\ n = 1 /\ t = buckets[b].last_refill
    IN  /\ (zero => fresh[b].calls < MaxCalls)
        /\ buckets' = [buckets EXCEPT ![b] = res.limiter]
        /\ call' = [id |-> b, n |-> n, at |-> t, ok |-> res.ok]
        /\ fresh' = [fresh EXCEPT ![b] =
                        IF zero
                        THEN [zero |-> TRUE, calls |-> @.calls + 1,
                              oks |-> @.oks + (IF res.ok THEN 1 ELSE 0)]
                        ELSE [zero |-> FALSE, calls |-> 0, oks |-> 0]]
        /\ UNCHANGED notLimVars

LimNext ==
    \E b \in BucketIds, n \in 1..MaxConsume, t \in ClockReadings :
        ConsumeCall(b, n, t)

-----------------------------------------------------------------------------
(* Text.  A header value is a sequence of characters, so that split(",")   *)
(* and strip() are computed; " " is the whitespace character.              *)

NoHeader == [set |-> FALSE, value |-> <<>>]
Header(v) == [set |-> TRUE, value |-> v]

\* str.strip(): leading and trailing whitespace removed
RECURSIVE LStrip(_)
LStrip(s) == IF s # <<>> /\ Head(s) = " " THEN LStrip(Tail(s)) ELSE s
RECURSIVE RStrip(_)
RStrip(s) ==
    IF s # <<>> /\ s[Len(s)] = " " THEN RStrip(SubSeq(s, 1, Len(s) - 1)) ELSE s
Strip(s) == RStrip(LStrip(s))

\* s.split(",")[0]: the text before the first comma
RECURSIVE SplitFirst(_)
SplitFirst(s) ==
    IF s = <<>> \/ Head(s) = "," THEN <<>> ELSE <<Head(s)>> \o SplitFirst(Tail(s))

\* int(x) of a float kept in 1/TokenScale units: truncation toward zero
IntTrunc(x) == IF x >= 0 THEN x \div TokenScale ELSE -((-x) \div TokenScale)

-----------------------------------------------------------------------------
(* RateLimitMiddleware *)

CleanupInterval == 300      \* self.cleanup_interval
RetryAfter == 60            \* the reset window added to time.time()


MaxRequests == 2            \* requests received in a run
RequestIds == 1..MaxRequests
\* the instants at which the clock is read, in seconds since construction:
\* around 0, around the cleanup interval and around twice the interval
Instants == {0, 1, 301, 601, 602}
RpmChoices == {30}
BurstChoices == {1, 2}
\* the skipped paths without the health check
BypassPathsNoHealth == {"/metrics", "/docs", "/redoc", "/openapi.json"}
BypassPaths == {"/api/health", "/metrics", "/docs", "/redoc", "/openapi.json"}
RequestPaths ==
    {"/api/edit", "/api/health", "/metrics", "/docs", "/redoc", "/openapi.json"}
ForwardedForChoices ==
    {NoHeader, Header(<<" ", "a", ",", "b">>), Header(<<",", "b">>)}
RealIpChoices == {NoHeader, Header(<<"a", " ">>)}
ClientChoices == {NoHeader, Header(<<"a">>)}
\* X-Forwarded-For, X-Real-IP and request.client of the requests sent
ClientChoicesOfRequests ==
    {<<ff, ri, c>> \in ForwardedForChoices \X RealIpChoices \X ClientChoices :
        /\ ff.set => (~ri.set /\ c.set)
        /\ ri.set => c.set}
\* the X-Request-ID header of a request
NoRequestId == [set |-> FALSE, value |-> ""]
RequestIdChoices == {NoRequestId, [set |-> TRUE, value |-> "req-1"]}
DownstreamStatus == {200}

NullLimiter == TokenBucketRateLimit(0, 0, 0)
NoRef == [live |-> FALSE, obj |-> NullLimiter]
NoResponse == [status |-> 0, body |-> "", headers |-> <<>>]
\* x_request_id is the request's header; consumed_to is the token count the
\* request's own consume() left
NewRequest ==
    [pc |-> "new", key |-> <<>>, outcome |-> "none",
     forwarded |-> FALSE, limiter |-> NoRef, x_request_id |-> NoRequestId,
     consumed_to |-> 0]
NothingSent ==
    [id |-> 0, key |-> <<>>, outcome |-> "none", forwarded |-> FALSE,
     x_request_id |-> NoRequestId, response |-> NoResponse]

\* str(uuid.uuid4()) made for request r
uuid4(r) == "uuid4-" \o ToString(r)
\* RequestIDMiddleware: request.headers.get("X-Request-ID") or str(uuid.uuid4())
request_id(header, r) ==
    IF header.set /\ header.value # "" THEN header.value ELSE uuid4(r)

\* _get_client_ip(request)
get_client_ip(forwarded_for, real_ip, client) ==
    IF forwarded_for.set /\ forwarded_for.value # <<>>
    THEN Strip(SplitFirst(forwarded_for.value))
    ELSE IF real_ip.set /\ real_ip.value # <<>>
    THEN Strip(real_ip.value)
    ELSE IF client.set THEN client.value
    ELSE <<"unknown">>

\* the keys removed with a cutoff of one cleanup interval
OldIpsOneInterval(lims, t) ==
    LET cutoff_time == t - CleanupInterval
    IN  {ip \in DOMAIN lims : lims[ip].last_refill < cutoff_time}

\* the keys _cleanup_limiters() removes when it sweeps at time t
OldIps(lims, t) ==
    LET cutoff_time == t - (CleanupInterval * 2)
    IN  {ip \in DOMAIN lims : lims[ip].last_refill < cutoff_time}

\* a sweep at every call
SweepDueAlways(lc, t) == t >= lc

\* _cleanup_limiters(): whether the sweep is due at time t
SweepDue(lc, t) == t - lc > CleanupInterval

\* self.limiters after _cleanup_limiters() at time t
CleanedLimiters(lims, lc, t) ==
    IF SweepDue(lc, t)
    THEN [ip \in DOMAIN lims \ OldIps(lims, t) |-> lims[ip]]
    ELSE lims

\* the 429 response without the rate-limit headers' zero
RateLimitResponseNoRemaining(rpm, t) ==
    [status |-> 429,
     body |-> "{\"error\": \"Rate limit exceeded\", \"retry_after\": 60}",
     headers |-> ("Content-Type" :> "application/json")
                 @@ ("Retry-After" :> ToString(RetryAfter))
                 @@ ("X-RateLimit-Limit" :> ToString(rpm))
                 @@ ("X-RateLimit-Reset" :> ToString(t + RetryAfter))]

\* the response dispatch() builds when consume() returns False
RateLimitResponse(rpm, t) ==
    [status |-> 429,
     body |-> "{\"error\": \"Rate limit exceeded\", \"retry_after\": 60}",
     headers |-> ("Content-Type" :> "application/json")
                 @@ ("Retry-After" :> ToString(RetryAfter))
                 @@ ("X-RateLimit-Limit" :> ToString(rpm))
                 @@ ("X-RateLimit-Remaining" :> "0")
                 @@ ("X-RateLimit-Reset" :> ToString(t + RetryAfter))]

\* the response call_next() returns to RateLimitMiddleware: the application's
\* after TimingMiddleware and RequestIDMiddleware, which setup_middleware adds
\* before RateLimitMiddleware and so run inside it.  The process time is a
\* fraction of a second written as text.
DownstreamResponse(status, r, header) ==
    [status |-> status, body |-> "downstream",
     headers |-> ("X-Request-ID" :> request_id(header, r))
                 @@ ("X-Process-Time" :> "str(process_time)")]

\* the rate-limit headers dispatch() adds to a forwarded request's response
WithRateLimitHeaders(response, rpm, remaining_tokens, t) ==
    [response EXCEPT !.headers =
        ("X-RateLimit-Limit" :> ToString(rpm))
        @@ ("X-RateLimit-Remaining" :> ToString(remaining_tokens))
        @@ ("X-RateLimit-Reset" :> ToString(t + RetryAfter))
        @@ @]

\* the limiter object a request holds: the map's object while the key is in
\* the map under that object, the object itself once it was evicted
Deref(ref, key) == IF ref.live THEN limiters[key] ELSE ref.obj

MwIdle ==
    /\ now = 0
    /\ config = [enabled |-> FALSE, requests_per_minute |-> 0, burst_capacity |-> 0]
    /\ limiters = <<>>
    /\ last_cleanup = 0
    /\ reqs = [r \in RequestIds |-> NewRequest]
    /\ sent = NothingSent

\* RateLimitMiddleware.__init__
MwInit ==
    /\ now = 0
    /\ \E e \in BOOLEAN, rpm \in RpmChoices, burst \in BurstChoices :
          config = [enabled |-> e, requests_per_minute |-> rpm,
                    burst_capacity |-> burst]
    /\ limiters = <<>>
    /\ last_cleanup = now
    /\ reqs = [r \in RequestIds |-> NewRequest]
    /\ sent = NothingSent

\* time passes
Tick(t) ==
    /\ t > now
    /\ now' = t
    /\ UNCHANGED <<config, limiters, last_cleanup, reqs, sent>>
    /\ UNCHANGED notMwVars

\* dispatch() up to call_next() or the 429: no await yields in between
Dispatch(r, path, forwarded_for, real_ip, client, x_request_id) ==
    /\ reqs[r].pc = "new"
    \* requests are numbered in the order of their arrival
    /\ \A q \in RequestIds : q < r => reqs[q].pc # "new"
    /\ IF ~config.enabled \/ path \in BypassPaths
       THEN /\ reqs' = [reqs EXCEPT ![r] =
                        [NewRequest EXCEPT !.pc = "downstream",
                                           !.outcome = "bypass",
                                           !.forwarded = TRUE,
                                           !.x_request_id = x_request_id]]
            /\ UNCHANGED <<limiters, last_cleanup, sent>>
       ELSE LET client_ip == get_client_ip(forwarded_for, real_ip, client)
                cleaned == CleanedLimiters(limiters, last_cleanup, now)
                evicted == DOMAIN limiters \ DOMAIN cleaned
                created == IF client_ip \in DOMAIN cleaned
                           THEN cleaned
                           ELSE (client_ip :>
                                   TokenBucketRateLimit(config.burst_capacity,
                                                        config.requests_per_minute,
                                                        now)) @@ cleaned
                res == consume(created[client_ip], 1, now)
                \* requests in flight keep the object they hold
                kept == [q \in RequestIds |->
                           IF reqs[q].limiter.live /\ reqs[q].key \in evicted
                           THEN [reqs[q] EXCEPT !.limiter =
                                    [live |-> FALSE, obj |-> limiters[reqs[q].key]]]
                           ELSE reqs[q]]
                admitted == [NewRequest EXCEPT
                               !.pc = "downstream",
                               !.key = client_ip, !.outcome = "admitted",
                               !.forwarded = TRUE,
                               !.limiter = [live |-> TRUE, obj |-> NullLimiter],
                               !.x_request_id = x_request_id,
                               !.consumed_to = res.limiter.tokens]
            IN  /\ limiters' = [created EXCEPT ![client_ip] = res.limiter]
                /\ last_cleanup' = IF SweepDue(last_cleanup, now)
                                   THEN now ELSE last_cleanup
                /\ IF res.ok
                   THEN /\ reqs' = [kept EXCEPT ![r] = admitted]
                        /\ UNCHANGED sent
                   ELSE /\ reqs' = [kept EXCEPT ![r] =
                                     [NewRequest EXCEPT !.pc = "done"]]
                        /\ sent' = [id |-> r, key |-> client_ip,
                                    outcome |-> "rejected",
                                    forwarded |-> FALSE,
                                    x_request_id |-> x_request_id,
                                    response |->
                                      RateLimitResponse(config.requests_per_minute,
                                                        now)]
    /\ UNCHANGED <<now, config>>
    /\ UNCHANGED notMwVars

\* call_next() returns and dispatch() finishes
Return(r, status) ==
    /\ reqs[r].pc = "downstream"
    /\ sent' = [id |-> r, key |-> reqs[r].key, outcome |-> reqs[r].outcome,
                forwarded |-> reqs[r].forwarded,
                x_request_id |-> reqs[r].x_request_id,
                response |->
                   IF reqs[r].outcome = "bypass"
                   THEN DownstreamResponse(status, r, reqs[r].x_request_id)
                   ELSE WithRateLimitHeaders(
                          DownstreamResponse(status, r, reqs[r].x_request_id),
                          config.requests_per_minute,
                          IntTrunc(Deref(reqs[r].limiter, reqs[r].key).tokens),
                          now)]
    /\ reqs' = [reqs EXCEPT ![r] = [NewRequest EXCEPT !.pc = "done"]]
    /\ UNCHANGED <<now, config, limiters, last_cleanup>>
    /\ UNCHANGED notMwVars

\* the response of request r was delivered: the slot takes the next request
NextRequest(r) ==
    /\ reqs[r].pc = "done"
    /\ reqs' = [reqs EXCEPT ![r] = NewRequest]
    /\ UNCHANGED <<now, config, limiters, last_cleanup, sent>>
    /\ UNCHANGED notMwVars

\* a deployment with a low rate: RATE_LIMIT_RPM and RATE_LIMIT_BURST
SlowRpmChoices == {1}
SlowBurstChoices == {1, 11}
\* the instants its clock is read at: around the advertised Retry-After,
\* around the cleanup interval and around twice the interval
SlowInstants == {0, 59, 60, 301, 602}
\* its clients: one peer that sends no forwarding header
SlowClients == {<<NoHeader, NoHeader, Header(<<"a">>)>>}

\* RateLimitMiddleware.__init__ of that deployment
SlowInit ==
    /\ now = 0
    /\ \E rpm \in SlowRpmChoices, burst \in SlowBurstChoices :
          config = [enabled |-> TRUE, requests_per_minute |-> rpm,
                    burst_capacity |-> burst]
    /\ limiters = <<>>
    /\ last_cleanup = now
    /\ reqs = [r \in RequestIds |-> NewRequest]
    /\ sent = NothingSent

\* any number of requests to /api/edit, at most MaxRequests in flight
SlowNext ==
    \/ \E t \in SlowInstants : Tick(t)
    \/ \E r \in RequestIds, h \in SlowClients :
          Dispatch(r, "/api/edit", h[1], h[2], h[3], NoRequestId)
    \/ \E r \in RequestIds, status \in DownstreamStatus : Return(r, status)
    \/ \E r \in RequestIds : NextRequest(r)

MwNext ==
    \/ \E t \in Instants : Tick(t)
    \/ \E r \in RequestIds, path \in RequestPaths,
          h \in ClientChoicesOfRequests, id \in RequestIdChoices :
             Dispatch(r, path, h[1], h[2], h[3], id)
    \/ \E r \in RequestIds, status \in DownstreamStatus : Return(r, status)

-----------------------------------------------------------------------------
(* POST /api/edit: the settings and the request.                            *)
(*                                                                          *)
(* An uploaded file is described by what the checks read of it: whether the *)
(* form field is there, its filename, whether UploadFile.size is known, the *)
(* content length, the declared content type, the leading bytes, what PIL   *)
(* makes of the content (format, mode, size), and whether PIL can open and  *)
(* load it.  A prompt is a sequence of runs <<character, count>>.  A number *)
(* is kept in tenths; a float parameter may also be absent, NaN or text     *)
(* that float() does not parse.                                             *)

MaxImageSizeMB == 10            \* MAX_IMAGE_SIZE_MB
MaxImageDimensionDefault == 2048 \* MAX_IMAGE_DIMENSION
MinImageDimensionDefault == 256 \* MIN_IMAGE_DIMENSION
MaxPromptLength == 500
\* an int of Python in limbs <<high, low>> of 16 bits: high * 65536 + low
Limbs(high, low) == <<high, low>>
LimbsLess(a, b) == a[1] < b[1] \/ (a[1] = b[1] /\ a[2] < b[2])
\* 2147483647
MaxSeed == Limbs(32767, 65535)
NormalizerMaxDimension == 2048  \* validate_and_process_image
NormalizerMinDimension == 256   \* validate_and_process_image
SignatureMinLength == 16        \* validate_file_signature
MaskMinLength == 33             \* validate_mask_file

MaxDeviations == 2      \* inputs and settings that differ from the baseline

Num(v) == [kind |-> "num", val |-> v]
Absent == [kind |-> "none", val |-> 0]
NoSeed == [kind |-> "none", val |-> Limbs(0, 0)]
NaN == [kind |-> "nan", val |-> 0]
Text == [kind |-> "text", val |-> 0]

\* the request of the end-to-end test and the default settings
Baseline ==
    [api_key |-> "", strict_validation |-> TRUE,
     image_provided |-> TRUE, image_filename |-> "test.png",
     image_size_known |-> TRUE, image_readable |-> TRUE, image_length |-> 1000,
     image_content_type |-> "image/png", image_signature |-> "png",
     image_decodes |-> "ok", image_multi_picture |-> FALSE,
     image_mode |-> "RGB",
     image_width |-> 512, image_height |-> 512,
     mask_provided |-> TRUE, mask_filename |-> "mask.png",
     mask_size_known |-> TRUE, mask_readable |-> TRUE, mask_length |-> 1000,
     mask_content_type |-> "image/png", mask_signature |-> "png",
     mask_ihdr |-> TRUE, mask_decodes |-> "ok",
     mask_mode |-> "RGBA", mask_width |-> 512, mask_height |-> 512,
     prompt |-> << <<"a", 21>> >>,
     seed |-> NoSeed, strength |-> Num(7), guidance_scale |-> Num(75)]

TooLarge == 11 * 1024 * 1024

\* what each input may be instead
Alternatives ==
    [api_key |-> {"demo_key_placeholder", "sk-live"},
     strict_validation |-> {FALSE},
     image_provided |-> {FALSE}, image_filename |-> {""},
     image_size_known |-> {FALSE}, image_readable |-> {FALSE},
     image_length |-> {0, 10, TooLarge},
     image_content_type |-> {"", "IMAGE/PNG; charset=x", "image/gif"},
     image_signature |-> {"jpeg", "none"},
     image_decodes |-> {"open_fails", "load_fails"},
     image_multi_picture |-> {TRUE}, image_mode |-> {"RGBA"},
     image_width |-> {255, 256, 2049}, image_height |-> {255, 2048},
     mask_provided |-> {FALSE}, mask_filename |-> {""},
     mask_size_known |-> {FALSE}, mask_readable |-> {FALSE},
     mask_length |-> {0, 20, TooLarge},
     mask_content_type |-> {"", "IMAGE/PNG; charset=x"},
     mask_signature |-> {"none"},
     mask_ihdr |-> {FALSE}, mask_decodes |-> {"open_fails", "load_fails"},
     mask_mode |-> {"L", "P", "RGB"},
     mask_width |-> {255, 256, 2049}, mask_height |-> {255, 2048},
     prompt |-> { <<>>, << <<" ", 3>> >>,
                  << <<" ", 1>>, <<"a", 500>>, <<"VT", 1>> >>,
                  << <<"a", 501>> >>,
                  << <<"a", 2>>, <<"BEL", 1>>, <<"a", 2>> >>,
                  << <<"a", 2>>, <<"\t", 1>>, <<"a", 2>> >>,
                  << <<"a", 2>>, <<"VT", 1>>, <<"a", 2>> >>,
                  << <<"<", 1>>, <<"s", 1>>, <<"c", 1>>, <<"r", 1>>,
                     <<"i", 1>>, <<"p", 1>>, <<"t", 1>> >> },
     seed |-> {Num(Limbs(0, 0)), Num(MaxSeed), Num(Limbs(-1, 65535)),
               Num(Limbs(32768, 0))},
     strength |-> {Absent, Num(0), Num(10), Num(11), Num(-1), NaN, Text},
     guidance_scale |-> {Absent, Num(10), Num(9), Num(201), NaN}]

Inputs == DOMAIN Alternatives

\* every single change <<input, value>> of a scenario
Changes == UNION { {<<f, v>> : v \in Alternatives[f]} : f \in Inputs }

\* the scenarios that differ from the baseline in at most k inputs
RECURSIVE Deviating(_)
Deviating(k) ==
    IF k = 0 THEN {Baseline}
    ELSE LET S == Deviating(k - 1)
         IN  S \cup {[x EXCEPT ![c[1]] = c[2]] : x \in S, c \in Changes}

\* what the content can be: multi-picture data is a JPEG extension, a JPEG
\* has no alpha channel or palette, and PIL opens no PNG without its IHDR
Realistic(x) ==
    /\ x.image_multi_picture => x.image_signature = "jpeg"
    /\ x.image_signature = "jpeg" => x.image_mode = "RGB"
    /\ ~x.mask_ihdr => x.mask_decodes = "open_fails"

Scenarios == {x \in Deviating(MaxDeviations) : Realistic(x)}

-----------------------------------------------------------------------------
(* security.py: the content validators *)

\* str.strip() of Python: these characters are whitespace
Whitespace == {" ", "\t", "\n", "\r", "VT", "FF", "FS", "GS", "RS", "US"}
\* [\x00-\x08\x0B\x0C\x0E-\x1F\x7F]
ControlChars == {"NUL", "BEL", "BS", "VT", "FF", "SO", "ESC", "FS", "GS", "RS",
                 "US", "DEL"}

RECURSIVE LStripRuns(_)
LStripRuns(p) ==
    IF p # <<>> /\ Head(p)[1] \in Whitespace THEN LStripRuns(Tail(p)) ELSE p
RECURSIVE RStripRuns(_)
RStripRuns(p) ==
    IF p # <<>> /\ p[Len(p)][1] \in Whitespace
    THEN RStripRuns(SubSeq(p, 1, Len(p) - 1)) ELSE p
\* prompt.lstrip()
StripPromptLeft(p) == LStripRuns(p)
\* prompt.strip()
StripPrompt(p) == RStripRuns(LStripRuns(p))
\* len(prompt)
RECURSIVE PromptLength(_)
PromptLength(p) == IF p = <<>> THEN 0 ELSE Head(p)[2] + PromptLength(Tail(p))
\* re.search of the control characters
HasControl(p) == \E i \in 1..Len(p) : p[i][1] \in ControlChars

\* validate_content_type: the base type, parameters dropped, lower-cased
BaseType(content_type) ==
    IF content_type = "IMAGE/PNG; charset=x" THEN "image/png" ELSE content_type
validate_content_type(content_type, allowed_types) ==
    /\ content_type # ""
    /\ BaseType(content_type) \in allowed_types

\* the leading bytes as far as the content reaches
LeadingBytes(signature, length) ==
    IF signature = "png" /\ length >= 8 THEN "png"
    ELSE IF signature = "jpeg" /\ length >= 3 THEN "jpeg"
    ELSE "none"

\* validate_file_signature: the detected type, "none" for None
validate_file_signature(signature, length) ==
    IF length < SignatureMinLength THEN "none" ELSE LeadingBytes(signature, length)

\* float(value): a number, NaN, or "error" for ValueError/TypeError
FloatOf(v) == IF v.kind = "text" THEN [kind |-> "error", val |-> 0] ELSE v

\* num_value < min_val or num_value > max_val: every comparison with NaN is false
OutOfRange(f, min_val, max_val) ==
    f.kind = "num" /\ (f.val < min_val \/ f.val > max_val)

\* validate_numeric_parameter(value, name, min, max): the float returned, or
\* not ok when it raises
validate_numeric_parameter(value, min_val, max_val) ==
    LET num_value == FloatOf(value)
    IN  IF num_value.kind = "error" THEN [ok |-> FALSE, value |-> num_value]
        ELSE IF OutOfRange(num_value, min_val, max_val)
        THEN [ok |-> FALSE, value |-> num_value]
        ELSE [ok |-> TRUE, value |-> num_value]

-----------------------------------------------------------------------------
(* inbound_validation.py: the checks of the pipeline, in the order of the   *)
(* code; each names the field its InputValidationError carries              *)

MaxImageSize == MaxImageSizeMB * 1024 * 1024

ImageChecks ==
    <<"image_presence", "image_size", "image_read", "image_empty",
      "image_content_type", "image_signature", "image_open",
      "image_min_dimension", "image_max_dimension">>
MaskChecks ==
    <<"mask_presence", "mask_size", "mask_read", "mask_empty",
      "mask_content_type", "mask_signature", "mask_length", "mask_ihdr",
      "mask_open", "mask_mode", "mask_min_dimension", "mask_max_dimension">>
PromptChecks == <<"prompt_empty", "prompt_length", "prompt_control">>
ParameterChecks ==
    <<"seed_range", "strength_numeric", "strength_range",
      "guidance_scale_numeric", "guidance_scale_range">>

FieldOf(check) ==
    IF check \in {ImageChecks[i] : i \in 1..Len(ImageChecks)} THEN "image"
    ELSE IF check \in {MaskChecks[i] : i \in 1..Len(MaskChecks)} THEN "mask"
    ELSE IF check \in {PromptChecks[i] : i \in 1..Len(PromptChecks)} THEN "prompt"
    ELSE IF check = "seed_range" THEN "seed"
    ELSE IF check \in {"strength_numeric", "strength_range"} THEN "strength"
    ELSE "guidance_scale"

\* whether the check raises on scenario x
Fails(check, x) ==
    CASE check = "image_presence" -> ~x.image_provided \/ x.image_filename = ""
      [] check = "image_size" ->
            x.image_size_known /\ x.image_length # 0
            /\ x.image_length > MaxImageSize
      [] check = "image_read" -> ~x.image_readable
      [] check = "image_empty" -> x.image_length = 0
      [] check = "image_content_type" ->
            ~validate_content_type(x.image_content_type,
                                   {"image/png", "image/jpeg", "image/jpg"})
      [] check = "image_signature" ->
            validate_file_signature(x.image_signature, x.image_length) = "none"
      [] check = "image_open" -> x.image_decodes = "open_fails"
      [] check = "image_min_dimension" ->
            x.image_width < MinImageDimensionDefault
            \/ x.image_height < MinImageDimensionDefault
      [] check = "image_max_dimension" ->
            x.image_width > MaxImageDimensionDefault
            \/ x.image_height > MaxImageDimensionDefault
      [] check = "mask_presence" -> ~x.mask_provided \/ x.mask_filename = ""
      [] check = "mask_size" ->
            x.mask_size_known /\ x.mask_length # 0
            /\ x.mask_length > MaxImageSize
      [] check = "mask_read" -> ~x.mask_readable
      [] check = "mask_empty" -> x.mask_length = 0
      [] check = "mask_content_type" -> x.mask_content_type # "image/png"
      [] check = "mask_signature" ->
            LeadingBytes(x.mask_signature, x.mask_length) # "png"
      [] check = "mask_length" -> x.mask_length < MaskMinLength
      \* the InputValidationError for a missing IHDR is raised inside a try
      \* whose except Exception clause logs it and goes on
      [] check = "mask_ihdr" -> FALSE
      [] check = "mask_open" -> x.mask_decodes = "open_fails"
      [] check = "mask_mode" ->
            x.mask_mode \notin {"RGBA", "LA", "L", "P"} /\ x.strict_validation
      [] check = "mask_min_dimension" ->
            x.mask_width < MinImageDimensionDefault
            \/ x.mask_height < MinImageDimensionDefault
      [] check = "mask_max_dimension" ->
            x.mask_width > MaxImageDimensionDefault
            \/ x.mask_height > MaxImageDimensionDefault
      [] check = "prompt_empty" -> StripPrompt(x.prompt) = <<>>
      [] check = "prompt_length" ->
            PromptLength(StripPrompt(x.prompt)) > MaxPromptLength
      [] check = "prompt_control" -> HasControl(StripPrompt(x.prompt))
      [] check = "seed_range" ->
            x.seed.kind # "none"
            /\ (LimbsLess(x.seed.val, Limbs(0, 0)) \/ LimbsLess(MaxSeed, x.seed.val))
      [] check = "strength_numeric" ->
            x.strength.kind # "none" /\ FloatOf(x.strength).kind = "error"
      [] check = "strength_range" ->
            x.strength.kind # "none"
            /\ ~validate_numeric_parameter(x.strength, 0, 10).ok
      [] check = "guidance_scale_numeric" ->
            x.guidance_scale.kind # "none"
            /\ FloatOf(x.guidance_scale).kind = "error"
      [] check = "guidance_scale_range" ->
            x.guidance_scale.kind # "none"
            /\ ~validate_numeric_parameter(x.guidance_scale, 10, 200).ok

\* the position of the first check of the list that raises, 0 when none does
RECURSIVE FirstFailure(_, _, _)
FirstFailure(list, x, i) ==
    IF i > Len(list) THEN 0
    ELSE IF Fails(list[i], x) THEN i
    ELSE FirstFailure(list, x, i + 1)

\* a pipeline that collects: every check of the list runs
ExecutedAll(list, x) == list

\* the checks of the list that run: all of them, or those up to the first
\* that raises
Executed(list, x) ==
    LET i == FirstFailure(list, x, 1)
    IN  IF i = 0 THEN list ELSE SubSeq(list, 1, i)

\* the checks whose InputValidationError is made in an except clause with
\* str(e) of the exception caught
EmbedsOf(check) ==
    IF check \in {"image_read", "image_open", "mask_read", "mask_open"}
    THEN "exception" ELSE ""

NotValidated == [valid |-> FALSE, status |-> 0, field |-> "", check |-> ""]

\* InputValidationError(..., field=...) raised by the check
InputValidationError(check) ==
    [valid |-> FALSE, status |-> 422, field |-> FieldOf(check), check |-> check]

\* _validate_parameters: the params dictionary
validated_params(x) ==
    [seed |-> x.seed,
     strength |-> IF x.strength.kind # "none"
                  THEN validate_numeric_parameter(x.strength, 0, 10).value
                  ELSE Num(8),
     guidance_scale |-> IF x.guidance_scale.kind # "none"
                        THEN validate_numeric_parameter(x.guidance_scale,
                                                        10, 200).value
                        ELSE Num(75)]

\* the dictionary validate_inpaint_request returns
ValidOutcome(x) ==
    [valid |-> TRUE, status |-> 200, field |-> "", check |-> "",
     prompt |-> StripPrompt(x.prompt),
     seed |-> validated_params(x).seed,
     strength |-> validated_params(x).strength,
     guidance_scale |-> validated_params(x).guidance_scale]

-----------------------------------------------------------------------------
(* services/image_processor.py: what PIL makes of the content *)

\* Image.open(...).format
ImageFormat(x) ==
    IF x.image_signature = "png" THEN "PNG"
    ELSE IF x.image_signature = "jpeg"
    THEN (IF x.image_multi_picture THEN "MPO" ELSE "JPEG")
    ELSE "OTHER"
MaskFormat(x) == IF x.mask_signature = "png" THEN "PNG" ELSE "OTHER"

\* HTTPException(status_code=..., detail=...); embeds names the foreign text
\* the detail is formatted with
HTTPException(status, detail, embeds) ==
    [ok |-> FALSE, status |-> status, detail |-> detail, embeds |-> embeds,
     data |-> <<>>]
Returned(data) ==
    [ok |-> TRUE, status |-> 200, detail |-> "", embeds |-> "", data |-> data]
NoResult == [ok |-> FALSE, status |-> 0, detail |-> "", embeds |-> "", data |-> <<>>]

\* validate_and_process_image: the size returned, or the exception raised
validate_and_process_image(x) ==
    IF x.image_decodes = "open_fails"
    THEN HTTPException(422, "Error processing image: ", "exception")
    ELSE IF ImageFormat(x) \notin {"PNG", "JPEG"}
    THEN HTTPException(422, "Image must be PNG or JPEG format", "")
    ELSE IF x.image_width > NormalizerMaxDimension
            \/ x.image_height > NormalizerMaxDimension
    THEN HTTPException(422, "Image dimensions must not exceed 2048x2048", "")
    ELSE IF x.image_width < NormalizerMinDimension
            \/ x.image_height < NormalizerMinDimension
    THEN HTTPException(422, "Image dimensions must be at least 256x256", "")
    ELSE IF x.image_decodes = "load_fails"
    THEN HTTPException(422, "Error processing image: ", "exception")
    ELSE Returned(<<x.image_width, x.image_height>>)

\* validate_and_process_mask(file, image_size)
validate_and_process_mask(x, size) ==
    IF x.mask_decodes = "open_fails"
    THEN HTTPException(422, "Error processing mask: ", "exception")
    ELSE IF MaskFormat(x) # "PNG"
    THEN HTTPException(422, "Mask must be PNG format", "")
    ELSE IF x.mask_mode \notin {"RGBA", "LA", "L"}
    THEN HTTPException(422,
           "Mask must have transparency (alpha channel) or be grayscale", "")
    ELSE IF <<x.mask_width, x.mask_height>> # size
    THEN HTTPException(422, "Mask dimensions must match image dimensions", "")
    ELSE IF x.mask_decodes = "load_fails"
    THEN HTTPException(422, "Error processing mask: ", "exception")
    ELSE Returned(<<>>)

\* the first bytes of a PNG file
PngMagic == <<137, 80, 78, 71>>
\* whether PIL opens these bytes
OpensAsImage(data) == Len(data) >= Len(PngMagic) /\ SubSeq(data, 1, Len(PngMagic)) = PngMagic

\* a response side that passes the content on as it came
create_response_image_unchecked(data) == Returned(<<"png of">> \o data)

\* create_response_image: the content re-encoded as PNG
create_response_image(data) ==
    IF OpensAsImage(data) THEN Returned(<<"png of">> \o data)
    ELSE HTTPException(500, "Error processing response image: ", "exception")

-----------------------------------------------------------------------------
(* services/nanobobana_client.py *)

\* base64 text is a sequence of symbols: 0..63 is the character of that
\* value, Pad is "=", Other is a character outside the alphabet
Pad == 64
Other == 65

\* binascii.a2b_base64 as base64.b64decode calls it (not strict): characters
\* outside the alphabet are skipped, enough padding ends the input, and what
\* is left of an unfinished quad at the end is an error
RECURSIVE a2b_base64(_, _, _, _, _)
a2b_base64(text, quad_pos, leftchar, pads, out) ==
    IF text = <<>>
    THEN [ok |-> quad_pos = 0, bytes |-> out]
    ELSE LET c == Head(text) IN
         IF c = Pad
         THEN IF quad_pos >= 2 /\ quad_pos + pads + 1 >= 4
              THEN [ok |-> TRUE, bytes |-> out]
              ELSE a2b_base64(Tail(text), quad_pos, leftchar,
                              IF quad_pos >= 2 THEN pads + 1 ELSE pads, out)
         ELSE IF c >= 64
         THEN a2b_base64(Tail(text), quad_pos, leftchar, pads, out)
         ELSE IF quad_pos = 0
         THEN a2b_base64(Tail(text), 1, c, 0, out)
         ELSE IF quad_pos = 1
         THEN a2b_base64(Tail(text), 2, c % 16, 0,
                         Append(out, leftchar * 4 + c \div 16))
         ELSE IF quad_pos = 2
         THEN a2b_base64(Tail(text), 3, c % 4, 0,
                         Append(out, leftchar * 16 + c \div 4))
         ELSE a2b_base64(Tail(text), 0, 0, 0, Append(out, leftchar * 64 + c))

b64decode(text) == a2b_base64(text, 0, 0, 0, <<>>)

\* the parsed body of a reply: what response.json() yields
\* error and message are the members _extract_error_message reads, "" when
\* the body has no such member
JsonInvalid == [type |-> "invalid", has_image |-> FALSE,
                image |-> [type |-> "null", text |-> <<>>],
                error |-> "", message |-> ""]
JsonNull == [type |-> "null", has_image |-> FALSE,
             image |-> [type |-> "null", text |-> <<>>],
             error |-> "", message |-> ""]
JsonArray(with) == [type |-> "array", has_image |-> with,
                    image |-> [type |-> "null", text |-> <<>>],
                    error |-> "", message |-> ""]
JsonObject == [type |-> "object", has_image |-> FALSE,
               image |-> [type |-> "null", text |-> <<>>],
               error |-> "", message |-> ""]
JsonError(error, message) ==
    [JsonObject EXCEPT !.error = error, !.message = message]
JsonImage(text) == [type |-> "object", has_image |-> TRUE,
                    image |-> [type |-> "string", text |-> text],
                    error |-> "", message |-> ""]
JsonImageNull == [type |-> "object", has_image |-> TRUE,
                  image |-> [type |-> "null", text |-> <<>>],
                  error |-> "", message |-> ""]

\* "iVBORw==" in sextets: the base64 text of PngMagic
PngMagicBase64 == <<34, 21, 1, 14, 17, 48, Pad, Pad>>

JsonBodies ==
    {JsonInvalid, JsonNull, JsonArray(FALSE), JsonArray(TRUE), JsonObject,
     JsonImageNull, JsonImage(PngMagicBase64), JsonImage(<<Other>> \o PngMagicBase64),
     JsonImage(<<>>), JsonImage(<<16, 16, 16, 16>>), JsonImage(<<16, 16>>),
     JsonImage(<<16>>), JsonImage(<<16, 16, 16, Pad>>)}

HttpReply(status, content_type, content, json, retry_after) ==
    [kind |-> "response", status |-> status, content_type |-> content_type,
     content |-> content, json |-> json, retry_after |-> retry_after]
NoReply == [kind |-> "none", status |-> 0, content_type |-> "",
            content |-> <<>>, json |-> JsonInvalid, retry_after |-> ""]

\* what the call to the external API may end in
Replies ==
    {HttpReply(200, ct, c, JsonInvalid, "") :
        ct \in {"image/png", "Image/PNG", "text/html", ""},
        c \in {PngMagic \o <<1>>, <<60, 104>>}}
    \cup {HttpReply(200, "application/json", <<123>>, j, "") : j \in JsonBodies}
    \cup {HttpReply(st, "application/json", <<123>>, j, "") :
            st \in {201, 400, 401, 403, 404, 500, 503},
            j \in {JsonInvalid, JsonObject, JsonArray(FALSE),
                    JsonError("mask too dark", ""), JsonError("", "quota")}}
    \cup {HttpReply(429, "application/json", <<123>>, JsonObject, ra) :
            ra \in {"", "7"}}
    \cup {[NoReply EXCEPT !.kind = k] : k \in {"timeout", "request_error", "other_error"}}

\* the mock image of _create_mock_response
MockImage == PngMagic \o <<77>>

\* the 200 branch when the content type is not an image: response.json(),
\* "image" in json_response, base64.b64decode(json_response["image"]); any
\* exception on the way is not an HTTPException
DecodeJsonReply(json) ==
    IF json.type \in {"invalid", "null"}
    THEN [raised |-> TRUE, result |-> NoResult]
    ELSE IF ~json.has_image
    THEN [raised |-> FALSE,
          result |-> HTTPException(502,
                       "Invalid response format from NanoBanana API", "")]
    ELSE IF json.type # "object" \/ json.image.type # "string"
    THEN [raised |-> TRUE, result |-> NoResult]
    ELSE IF ~b64decode(json.image.text).ok
    THEN [raised |-> TRUE, result |-> NoResult]
    ELSE [raised |-> FALSE, result |-> Returned(b64decode(json.image.text).bytes)]

\* response.headers.get("content-type", "").startswith("image/")
IsImageContentType(content_type) == content_type = "image/png"

\* _extract_error_message(response)
extract_error_message(reply) ==
    IF reply.json.type # "object" THEN "HTTP " \o ToString(reply.status)
    ELSE IF reply.json.error # "" THEN reply.json.error
    ELSE IF reply.json.message # "" THEN reply.json.message
    ELSE ToString(reply.status)

\* inpaint_image with a retry after throttling and timeouts
inpaint_image_retrying(api_key, reply) ==
    IF api_key = "" \/ api_key = "demo_key_placeholder"
    THEN [calls |-> 0, result |-> Returned(MockImage)]
    ELSE IF reply.kind = "timeout" \/ reply.status = 429
    THEN [calls |-> 2, result |-> HTTPException(502, "retried", "")]
    ELSE [calls |-> 1, result |-> HTTPException(502, "failed", "")]

\* inpaint_image: the outbound calls issued and what is returned or raised
inpaint_image(api_key, reply) ==
    IF api_key = "" \/ api_key = "demo_key_placeholder"
    THEN [calls |-> 0, result |-> Returned(MockImage)]
    ELSE
    [calls |-> 1,
     result |->
       IF reply.kind = "timeout"
       THEN HTTPException(502, "Request to NanoBanana API timed out", "")
       ELSE IF reply.kind = "request_error"
       THEN HTTPException(502, "Failed to connect to NanoBanana API", "")
       ELSE IF reply.kind = "other_error"
       THEN HTTPException(500, "Internal server error during image processing", "")
       ELSE IF reply.status = 200
       THEN IF IsImageContentType(reply.content_type)
            THEN Returned(reply.content)
            ELSE IF DecodeJsonReply(reply.json).raised
            THEN HTTPException(500,
                   "Internal server error during image processing", "")
            ELSE DecodeJsonReply(reply.json).result
       ELSE IF reply.status = 400
       THEN HTTPException(422, "Invalid request parameters: ",
                          extract_error_message(reply))
       ELSE IF reply.status = 401
       THEN HTTPException(502, "Invalid NanoBanana API key", "")
       ELSE IF reply.status = 429
       THEN HTTPException(502, "NanoBanana API rate limit exceeded. Retry after ",
                          IF reply.retry_after = "" THEN "60"
                          ELSE reply.retry_after)
       ELSE IF reply.status >= 500
       THEN HTTPException(502, "NanoBanana API server error", "")
       ELSE HTTPException(502, "Unexpected response from NanoBanana API: ",
                          extract_error_message(reply))]

-----------------------------------------------------------------------------
(* api/inpaint.py: the handler of POST /api/edit, one action per call it    *)
(* makes; an exception ends the handler with the response of its except     *)
(* clause                                                                   *)

NoHttpResponse == [status |-> 0, detail |-> "", embeds |-> "", content |-> <<>>]
NoUpstream == [calls |-> 0, reply |-> NoReply]

\* the response FastAPI makes of an HTTPException the handler raises
ErrorResponse(e) ==
    [status |-> e.status, detail |-> e.detail, embeds |-> e.embeds,
     content |-> <<>>]

EditIdle ==
    /\ scenario = Baseline
    /\ pc = "idle"
    /\ checks = <<>>
    /\ validated = NotValidated
    /\ image_size = <<0, 0>>
    /\ upstream = NoUpstream
    /\ result = NoResult
    /\ http_response = NoHttpResponse

EditInit ==
    /\ scenario \in Scenarios
    /\ pc = "validate_image"
    /\ checks = <<>>
    /\ validated = NotValidated
    /\ image_size = <<0, 0>>
    /\ upstream = NoUpstream
    /\ result = NoResult
    /\ http_response = NoHttpResponse

\* one sub-validator of validate_inpaint_request: its checks run up to the
\* first that raises; the InputValidationError goes through the except clause
\* of the pipeline and that of the handler
RunChecks(list, next) ==
    LET i == FirstFailure(list, scenario, 1) IN
    /\ checks' = checks \o Executed(list, scenario)
    /\ IF i = 0
       THEN /\ pc' = next
            /\ validated' = IF next = "process_image"
                            THEN ValidOutcome(scenario) ELSE validated
            /\ UNCHANGED http_response
       ELSE /\ pc' = "done"
            /\ validated' = InputValidationError(list[i])
            /\ http_response' = [status |-> 422, detail |-> list[i],
                                 embeds |-> EmbedsOf(list[i]),
                                 content |-> <<>>]
    /\ UNCHANGED <<scenario, image_size, upstream, result>>
    /\ UNCHANGED notEditVars

ValidateUploadedImage ==
    /\ pc = "validate_image"
    /\ RunChecks(ImageChecks, "validate_mask")

ValidateUploadedMask ==
    /\ pc = "validate_mask"
    /\ RunChecks(MaskChecks, "validate_prompt")

ValidatePromptText ==
    /\ pc = "validate_prompt"
    /\ RunChecks(PromptChecks, "validate_parameters")

ValidateParameters ==
    /\ pc = "validate_parameters"
    /\ RunChecks(ParameterChecks, "process_image")

ProcessImage ==
    /\ pc = "process_image"
    /\ LET r == validate_and_process_image(scenario) IN
       IF r.ok
       THEN /\ image_size' = r.data
            /\ pc' = "process_mask"
            /\ UNCHANGED http_response
       ELSE /\ http_response' = ErrorResponse(r)
            /\ pc' = "done"
            /\ UNCHANGED image_size
    /\ UNCHANGED <<scenario, checks, validated, upstream, result>>
    /\ UNCHANGED notEditVars

ProcessMask ==
    /\ pc = "process_mask"
    /\ LET r == validate_and_process_mask(scenario, image_size) IN
       IF r.ok
       THEN /\ pc' = "call_api"
            /\ UNCHANGED http_response
       ELSE /\ http_response' = ErrorResponse(r)
            /\ pc' = "done"
    /\ UNCHANGED <<scenario, checks, validated, image_size, upstream, result>>
    /\ UNCHANGED notEditVars

InpaintImage(reply) ==
    /\ pc = "call_api"
    /\ LET r == inpaint_image(scenario.api_key, reply) IN
       /\ r.calls = 0 => reply = NoReply
       /\ r.calls > 0 => reply \in Replies
       /\ upstream' = [calls |-> upstream.calls + r.calls, reply |-> reply]
       /\ result' = r.result
       /\ IF r.result.ok
          THEN pc' = "create_response" /\ UNCHANGED http_response
          ELSE pc' = "done" /\ http_response' = ErrorResponse(r.result)
    /\ UNCHANGED <<scenario, checks, validated, image_size>>
    /\ UNCHANGED notEditVars

CreateResponseImage ==
    /\ pc = "create_response"
    /\ LET r == create_response_image(result.data) IN
       http_response' = IF r.ok
                        THEN [status |-> 200, detail |-> "", embeds |-> "",
                              content |-> r.data]
                        ELSE ErrorResponse(r)
    /\ pc' = "done"
    /\ UNCHANGED <<scenario, checks, validated, image_size, upstream, result>>
    /\ UNCHANGED notEditVars

EditNext ==
    \/ ValidateUploadedImage
    \/ ValidateUploadedMask
    \/ ValidatePromptText
    \/ ValidateParameters
    \/ ProcessImage
    \/ ProcessMask
    \/ \E reply \in Replies \cup {NoReply} : InpaintImage(reply)
    \/ CreateResponseImage

-----------------------------------------------------------------------------
(* security.py: sanitize_filename.                                          *)
(*                                                                          *)
(* A filename is a sequence of runs <<character, count>>, as a prompt is.   *)
(* os.path is posixpath: the separator is "/".                              *)

FilenameMaxLength == 255

\* the characters of the filenames tried: a letter, the dot, the two
\* separators, one of the characters replaced and one control character
FilenameChars == {"a", ".", "/", "\\", "<", "NUL"}
\* the lengths of the runs: around 1 and around the length limit
RunLengths == {1, 2, 254, 300}
FilenameRuns == FilenameChars \X RunLengths
Filenames == UNION {[1..n -> FilenameRuns] : n \in 0..MaxRuns}

\* [<>:"/\\|?*]
DangerousChars == {"<", ">", ":", "\"", "/", "\\", "|", "?", "*"}
\* [\x00-\x1f\x7f-\x9f]
FilenameControlChars == {"NUL", "BEL", "\t", "\n", "\r", "ESC", "DEL", "NEL"}

\* the indices of the runs of character c
RunsOf(f, c) == {i \in 1..Len(f) : f[i][1] = c}
Last(S) == CHOOSE i \in S : \A j \in S : j <= i

\* os.path.basename(filename)
basename(f) ==
    IF RunsOf(f, "/") = {} THEN f
    ELSE SubSeq(f, Last(RunsOf(f, "/")) + 1, Len(f))

\* re.sub(r'[<>:"/\\|?*]', '_', filename)
ReplaceDangerous(f) ==
    [i \in 1..Len(f) |->
        IF f[i][1] \in DangerousChars THEN <<"_", f[i][2]>> ELSE f[i]]

\* re.sub(r'[\x00-\x1f\x7f-\x9f]', '', filename)
RemoveControl(f) == SelectSeq(f, LAMBDA run : run[1] \notin FilenameControlChars)

\* f[:n] for n >= 0
RECURSIVE Take(_, _)
Take(f, n) ==
    IF n <= 0 \/ f = <<>> THEN <<>>
    ELSE IF Head(f)[2] <= n THEN <<Head(f)>> \o Take(Tail(f), n - Head(f)[2])
    ELSE << <<Head(f)[1], n>> >>

\* f[:n] of Python: the first n characters, all but the last -n when n < 0
Slice(f, n) == IF n >= 0 THEN Take(f, n) ELSE Take(f, PromptLength(f) + n)

\* os.path.splitext(filename) of a name without separator: the extension
\* starts at the last dot unless only dots come before it
splitext(f) ==
    LET dots == RunsOf(f, ".")
        j == Last(dots)
        head == SubSeq(f, 1, j - 1)
        rest == SubSeq(f, j + 1, Len(f))
    IN  IF dots = {} \/ \A i \in 1..(j - 1) : f[i][1] = "."
        THEN [name |-> f, ext |-> <<>>]
        ELSE [name |-> IF f[j][2] > 1
                       THEN head \o << <<".", f[j][2] - 1>> >> ELSE head,
              ext |-> << <<".", 1>> >> \o rest]

\* filename[:255 - len(ext)] + ext
LimitLength(f) ==
    IF PromptLength(f) > FilenameMaxLength
    THEN LET parts == splitext(f)
         IN  Slice(parts.name, FilenameMaxLength - PromptLength(parts.ext))
             \o parts.ext
    ELSE f

\* "unnamed_file"
UnnamedFile ==
    << <<"u", 1>>, <<"n", 2>>, <<"a", 1>>, <<"m", 1>>, <<"e", 1>>, <<"d", 1>>,
       <<"_", 1>>, <<"f", 1>>, <<"i", 1>>, <<"l", 1>>, <<"e", 1>> >>

\* filename in ['.', '..', '']
DotOrDotDot(f) ==
    /\ \A i \in 1..Len(f) : f[i][1] = "."
    /\ PromptLength(f) <= 2

\* sanitize_filename(filename)
sanitize_filename(f) ==
    IF f = <<>> THEN UnnamedFile
    ELSE LET limited == LimitLength(RemoveControl(ReplaceDangerous(basename(f))))
         IN  IF DotOrDotDot(limited) THEN UnnamedFile ELSE limited

NotSanitized == [returned |-> FALSE, name |-> <<>>]

SanIdle ==
    /\ filename = <<>>
    /\ sanitized = NotSanitized

SanInit ==
    /\ filename \in Filenames
    /\ sanitized = NotSanitized

\* a call of sanitize_filename
Sanitize ==
    /\ ~sanitized.returned
    /\ sanitized' = [returned |-> TRUE, name |-> sanitize_filename(filename)]
    /\ UNCHANGED filename
    /\ UNCHANGED notSanVars

SanNext == Sanitize

-----------------------------------------------------------------------------
(* api/health.py and NanoBananaClient.health_check.                         *)
(*                                                                          *)
(* A URL is a sequence of segments; a reply to the probe is a response with *)
(* a status or one of the ways httpx (or the await) fails.                  *)

HealthKeys == {"", "demo_key_placeholder", "sk-live", "sk-test"}
HealthUrls ==
    {<<"https://api.nanobanana.ai", "/v1", "/inpaint">>,
     <<"https://proxy.local", "/inpaint", "/v2", "/inpaint">>,
     <<"https://proxy.local", "/edit">>}
ProbeStatuses ==
    {200, 201, 204, 301, 302, 400, 401, 403, 404, 405, 408, 429, 500, 502,
     503, 504}
ProbeFailures ==
    {"timeout", "connect_error", "invalid_url", "other_error", "cancelled"}
ProbeResponse(status) == [kind |-> "response", status |-> status]
ProbeFailure(kind) == [kind |-> kind, status |-> 0]
NoProbe == [kind |-> "none", status |-> 0]
ProbeReplies ==
    {ProbeResponse(st) : st \in ProbeStatuses}
    \cup {ProbeFailure(k) : k \in ProbeFailures}

\* self.base_url.replace('/inpaint', '/health')
HealthUrl(base_url) ==
    [i \in 1..Len(base_url) |->
        IF base_url[i] = "/inpaint" THEN "/health" ELSE base_url[i]]

\* a probe that takes 200 alone for healthy
HealthyOnly200(reply) == reply.kind = "response" /\ reply.status = 200

\* response.status_code in (200, 404), False on any exception
Healthy(reply) == reply.kind = "response" /\ reply.status \in {200, 404}

\* HealthResponse(status=..., timestamp=..., version="1.0.0")
HealthResponse(api_healthy) ==
    [status |-> 200,
     body |-> [status |-> IF api_healthy THEN "ok" ELSE "degraded",
               version |-> "1.0.0"]]
NoHealthResponse == [status |-> 0, body |-> [status |-> "", version |-> ""]]

HealthIdle ==
    /\ health_settings = [nanobanana_key |-> "", nanobanana_url |-> <<>>]
    /\ health = [pc |-> "idle", calls |-> 0, url |-> <<>>, reply |-> NoProbe,
                 response |-> NoHealthResponse]

HealthInit ==
    /\ \E key \in HealthKeys, url \in HealthUrls :
          health_settings = [nanobanana_key |-> key, nanobanana_url |-> url]
    /\ health = [pc |-> "idle", calls |-> 0, url |-> <<>>, reply |-> NoProbe,
                 response |-> NoHealthResponse]

\* GET /api/health up to the await of client.get: in mock mode the handler
\* answers at once
HealthCheck ==
    /\ health.pc = "idle"
    /\ IF health_settings.nanobanana_key \in {"", "demo_key_placeholder"}
       THEN health' = [health EXCEPT !.pc = "done",
                                     !.response = HealthResponse(TRUE)]
       ELSE health' = [health EXCEPT
                          !.pc = "probing", !.calls = @ + 1,
                          !.url = HealthUrl(health_settings.nanobanana_url)]
    /\ UNCHANGED health_settings
    /\ UNCHANGED notHealthVars

\* the probe answers or fails, and the handler answers
ProbeReturns(reply) ==
    /\ health.pc = "probing"
    /\ health' = [health EXCEPT !.pc = "done", !.reply = reply,
                                !.response = HealthResponse(Healthy(reply))]
    /\ UNCHANGED health_settings
    /\ UNCHANGED notHealthVars

HealthNext ==
    \/ HealthCheck
    \/ \E reply \in ProbeReplies : ProbeReturns(reply)

-----------------------------------------------------------------------------
(* The specifications *)

InitLimiter == LimInit /\ MwIdle /\ EditIdle /\ SanIdle /\ HealthIdle

SpecLimiter == InitLimiter /\ [][LimNext]_vars

Init == MwInit /\ LimIdle /\ EditIdle /\ SanIdle /\ HealthIdle

Spec == Init /\ [][MwNext]_vars
\* the clock advances and the application answers every forwarded request;
\* nothing makes a client send a request
SpecFair ==
    /\ Init /\ [][MwNext]_vars
    /\ WF_vars(\E t \in Instants : Tick(t))
    /\ WF_vars(\E r \in RequestIds, status \in DownstreamStatus : Return(r, status))

InitSlow == SlowInit /\ LimIdle /\ EditIdle /\ SanIdle /\ HealthIdle

SpecSlow == InitSlow /\ [][SlowNext]_vars

InitEdit == EditInit /\ LimIdle /\ MwIdle /\ SanIdle /\ HealthIdle

SpecEdit == InitEdit /\ [][EditNext]_vars

InitSanitize == SanInit /\ LimIdle /\ MwIdle /\ EditIdle /\ HealthIdle

SpecSanitize == InitSanitize /\ [][SanNext]_vars

InitHealth == HealthInit /\ LimIdle /\ MwIdle /\ EditIdle /\ SanIdle

SpecHealth == InitHealth /\ [][HealthNext]_vars

-----------------------------------------------------------------------------
(* Claims about the limiter on its own (SpecLimiter) *)

\* C2: consume(1) called repeatedly on a freshly created limiter of capacity C
\* with zero elapsed time between the calls returns true exactly C times: in
\* every prefix of such a run the number of successes is min(calls, C), and
\* the last call made succeeded iff it was one of the first C.
C2_FreshBurst ==
    \A b \in BucketIds :
        fresh[b].zero =>
            /\ fresh[b].oks = Min(fresh[b].calls, buckets[b].capacity)
            /\ (call.id = b /\ fresh[b].calls > 0 =>
                    (call.ok <=> fresh[b].calls <= buckets[b].capacity))

\* a limiter of capacity MaxCapacity called more often than its capacity in a
\* zero-elapsed run: it succeeded MaxCapacity times and the last call failed
C2_Witness ==
    \E b \in BucketIds :
        /\ fresh[b].zero
        /\ buckets[b].capacity = MaxCapacity
        /\ buckets[b].refill_rate > 0
        /\ fresh[b].calls > MaxCapacity
        /\ fresh[b].oks = MaxCapacity
        /\ call.id = b /\ ~call.ok

\* C3: after any sequence of consume(n) calls, whatever the clock readings,
\* every limiter's token count is within [0, capacity].
C3_TokensWithinBounds ==
    \A b \in BucketIds :
        /\ buckets[b].tokens >= 0
        /\ buckets[b].tokens <= buckets[b].capacity * TokenScale

\* C4: consume(n) sets last_refill to the clock reading and the token count to
\* min(capacity, tokens + elapsed * refill_rate); it returns true iff that
\* refilled count is at least n, and then subtracts exactly n; otherwise the
\* count stays the refilled count.  Capacity and refill rate of the limiter
\* and every other limiter are left as they were.
C4_ConsumeContract ==
    [][LET b == call'.id
           n == call'.n
           t == call'.at
           old == buckets[b]
           sum == old.tokens + (t - old.last_refill) * old.refill_rate
           cap == old.capacity * TokenScale
           refilled == IF sum > cap THEN cap ELSE sum
       IN  /\ b \in BucketIds
           /\ buckets'[b].last_refill = t
           /\ (call'.ok <=> refilled >= n * TokenScale)
           /\ buckets'[b].tokens =
                 IF call'.ok THEN refilled - n * TokenScale ELSE refilled
           /\ buckets'[b].capacity = old.capacity
           /\ buckets'[b].refill_rate = old.refill_rate
           /\ \A o \in BucketIds \ {b} : buckets'[o] = buckets[o]
      ]_vars

\* a consume(2) that was refused after a refill: the count was raised by the
\* refill and nothing was subtracted
C4_Witness ==
    /\ call.id = "b1" /\ call.n = 2 /\ ~call.ok
    /\ call.at > 0
    /\ buckets["b1"].last_refill = call.at
    /\ buckets["b1"].tokens > 0
    /\ buckets["b1"].tokens < 2 * TokenScale

-----------------------------------------------------------------------------
(* Claims about the rate-limit middleware (Spec) *)

\* C1: with rate limiting enabled, whenever the limiter of the request's
\* client key rejects (after the sweep and the lazy creation, the refilled
\* token count of that key's limiter is below one token), the middleware
\* answers 429 with the fixed body and the headers Retry-After: 60,
\* X-RateLimit-Limit, X-RateLimit-Remaining: 0 and X-RateLimit-Reset, and the
\* request is never forwarded downstream; a request that was answered so is
\* finished and stays finished.
C1_RejectionIs429 ==
    /\ [](sent.outcome = "rejected" =>
            /\ ~sent.forwarded
            /\ reqs[sent.id].pc = "done"
            /\ ~reqs[sent.id].forwarded)
    /\ [][\A r \in RequestIds :
            reqs[r].pc = "new" /\ reqs'[r].pc # "new"
            /\ ~(reqs'[r].pc = "downstream" /\ reqs'[r].outcome = "bypass") =>
            LET k == IF reqs'[r].pc = "done" THEN sent'.key ELSE reqs'[r].key
                swept == now - last_cleanup > 300
                         /\ k \in DOMAIN limiters
                         /\ limiters[k].last_refill < now - 600
                tokens == IF k \in DOMAIN limiters /\ ~swept
                          THEN limiters[k].tokens
                                 + (now - limiters[k].last_refill)
                                   * config.requests_per_minute
                          ELSE config.burst_capacity * 60
                available == IF tokens > config.burst_capacity * 60
                             THEN config.burst_capacity * 60 ELSE tokens
            IN  /\ config.enabled
                /\ available < 60 =>
                    /\ reqs'[r].pc = "done" /\ ~reqs'[r].forwarded
                    /\ sent'.id = r /\ sent'.outcome = "rejected"
                    /\ sent'.response.status = 429
                    /\ sent'.response.body =
                         "{\"error\": \"Rate limit exceeded\", \"retry_after\": 60}"
                    /\ DOMAIN sent'.response.headers =
                         {"Content-Type", "Retry-After", "X-RateLimit-Limit",
                          "X-RateLimit-Remaining", "X-RateLimit-Reset"}
                    /\ sent'.response.headers["Retry-After"] = "60"
                    /\ sent'.response.headers["X-RateLimit-Remaining"] = "0"
                    /\ limiters'[k].tokens = available
                /\ available >= 60 =>
                    /\ reqs'[r].pc = "downstream" /\ reqs'[r].forwarded
                    /\ limiters'[k].tokens = available - 60
         ]_vars

\* one identity used up its burst without refill and its next request was
\* answered 429 without being forwarded
C1_Witness ==
    /\ config.enabled /\ config.burst_capacity = MaxRequests - 1
    /\ now = 0
    /\ sent.outcome = "rejected" /\ sent.response.status = 429
    /\ sent.key = <<"a">>
    /\ limiters[<<"a">>].tokens = 0
    /\ \A r \in RequestIds : r # sent.id => reqs[r].forwarded

-----------------------------------------------------------------------------
(* Claims about POST /api/edit (SpecEdit) *)

ValidationOver == pc \notin {"validate_image", "validate_mask", "validate_prompt",
                             "validate_parameters", "idle"}

InClosedRange(f, lo, hi) == f.kind = "num" /\ lo <= f.val /\ f.val <= hi

\* C5: whenever the validation pipeline returns a Valid outcome, the returned
\* prompt is non-empty, has no leading or trailing whitespace, is at most 500
\* characters long and has none of the rejected control characters; strength
\* is a number in [0.0, 1.0], 0.8 when omitted; guidance_scale is a number in
\* [1.0, 20.0], 7.5 when omitted; seed is absent or an integer in
\* [0, 2147483647].  (Numbers in tenths.)
C5_ValidOutcome ==
    validated.valid =>
        /\ validated.prompt # <<>>
        /\ Head(validated.prompt)[1] \notin Whitespace
        /\ validated.prompt[Len(validated.prompt)][1] \notin Whitespace
        /\ PromptLength(validated.prompt) <= 500
        /\ \A i \in 1..Len(validated.prompt) :
              validated.prompt[i][1] \notin ControlChars
        /\ InClosedRange(validated.strength, 0, 10)
        /\ scenario.strength.kind = "none" => validated.strength = Num(8)
        /\ InClosedRange(validated.guidance_scale, 10, 200)
        /\ scenario.guidance_scale.kind = "none"
              => validated.guidance_scale = Num(75)
        /\ \/ validated.seed.kind = "none"
           \/ /\ validated.seed.kind = "num"
              /\ ~LimbsLess(validated.seed.val, Limbs(0, 0))
              /\ ~LimbsLess(Limbs(32767, 65535), validated.seed.val)

AllChecks == ImageChecks \o MaskChecks \o PromptChecks \o ParameterChecks
Range(q) == {q[i] : i \in 1..Len(q)}
Violated(x) == {c \in Range(AllChecks) : Fails(c, x)}

\* the position of a check in the order the specification gives: presence of
\* image and mask, size, content read, emptiness, signature/content type,
\* dimensions (with what PIL reads of the file), prompt, numeric parameters
Stage(check) ==
    CASE check \in {"image_presence", "mask_presence"} -> 1
      [] check \in {"image_size", "mask_size"} -> 2
      [] check \in {"image_read", "mask_read"} -> 3
      [] check \in {"image_empty", "mask_empty"} -> 4
      [] check \in {"image_content_type", "image_signature", "mask_content_type",
                    "mask_signature", "mask_length", "mask_ihdr"} -> 5
      [] check \in {"image_open", "image_min_dimension", "image_max_dimension",
                    "mask_open", "mask_mode", "mask_min_dimension",
                    "mask_max_dimension"} -> 6
      [] check \in Range(PromptChecks) -> 7
      [] OTHER -> 8

\* C6 as stated: the checks run in the order presence (image and mask) ->
\* size -> content read -> emptiness -> signature/content-type -> dimensions
\* -> prompt -> numeric parameters, and the one error returned carries the
\* field of the earliest failing check in that order.
C6_StatedOrder ==
    /\ \A i, j \in 1..Len(checks) : i < j => Stage(checks[i]) <= Stage(checks[j])
    /\ validated.status = 422 =>
          \E c \in Violated(scenario) :
             /\ validated.field = FieldOf(c)
             /\ \A d \in Violated(scenario) : Stage(c) <= Stage(d)

\* C6 amended: the pipeline runs every check of the image (presence, size,
\* content read, emptiness, content type, signature, dimensions), then every
\* check of the mask (the same, with the colour mode before the dimensions),
\* then the prompt, then seed, strength and guidance_scale; it stops at the
\* first check that raises: the checks executed are exactly those up to the
\* earliest failing one in that order, the one error returned carries its
\* field, no check is executed after it, and a Valid outcome means that all
\* checks ran and none failed.
C6_CodeOrder ==
    /\ [](/\ \E n \in 0..Len(AllChecks) : checks = SubSeq(AllChecks, 1, n)
          /\ \A i \in 1..Len(checks) :
                Fails(checks[i], scenario) <=> (i = Len(checks) /\ validated.status = 422)
          /\ validated.status = 422 =>
                /\ checks # <<>>
                /\ validated.check = checks[Len(checks)]
                /\ validated.field = FieldOf(checks[Len(checks)])
                /\ http_response.status = 422
          /\ validated.valid => checks = AllChecks /\ Violated(scenario) = {}
          /\ ValidationOver => (validated.valid \/ validated.status = 422))
    /\ [][validated.status = 422 => checks' = checks /\ validated' = validated]_vars

\* a request that violates several checks was rejected
C6_Witness ==
    /\ pc = "done"
    /\ validated.status = 422
    /\ Cardinality(Violated(scenario)) >= 2
    /\ \E c \in Violated(scenario) : Stage(c) < Stage(validated.check)

BothInBounds(x) ==
    \A d \in {x.image_width, x.image_height, x.mask_width, x.mask_height} :
        256 <= d /\ d <= 2048
DimensionsDiffer(x) ==
    <<x.mask_width, x.mask_height>> # <<x.image_width, x.image_height>>

\* C7: a request whose mask dimensions differ from the image dimensions, both
\* within the allowed bounds, is never reported Valid by the validation
\* pipeline, and when nothing else is wrong with it the pipeline rejects it
\* with an input-validation error of field "mask".
C7_MismatchRejected ==
    (DimensionsDiffer(scenario) /\ BothInBounds(scenario)) =>
        /\ ~validated.valid
        /\ (ValidationOver /\ Violated(scenario) = {}) =>
              (validated.status = 422 /\ validated.field = "mask")

ClientReturned == upstream.calls > 0 /\ pc \in {"create_response", "done"}

\* C8: with a credential configured the result of inpaint_image follows the
\* reply: 200 with an image content type -> the body; 200 with a JSON body
\* that has "image" -> its base64 decoding; 200 with JSON that has no "image"
\* -> error 502; 400 -> error 422; 401 -> error 502; 429 -> error 502 with
\* the retry-after value of the reply in the message; status >= 500 -> error
\* 502; any other status -> error 502; timeout or connection failure -> 502.
C8_ReplyMapping ==
    ClientReturned =>
      LET r == upstream.reply
          isJson == r.kind = "response" /\ r.status = 200
                    /\ r.content_type # "image/png" /\ r.json.type # "invalid"
          error(status) == ~result.ok /\ result.status = status
      IN  /\ (r.kind = "response" /\ r.status = 200 /\ r.content_type = "image/png")
                => result = Returned(r.content)
          /\ (isJson /\ r.json.type = "object" /\ r.json.has_image
              /\ r.json.image.type = "string" /\ b64decode(r.json.image.text).ok)
                => result = Returned(b64decode(r.json.image.text).bytes)
          /\ (isJson /\ ~r.json.has_image) => error(502)
          /\ (r.kind = "response" /\ r.status = 400) => error(422)
          /\ (r.kind = "response" /\ r.status = 401) => error(502)
          /\ (r.kind = "response" /\ r.status = 429) =>
                (error(502) /\ (r.retry_after # "" => result.embeds = r.retry_after))
          /\ (r.kind = "response" /\ r.status >= 500) => error(502)
          /\ (r.kind = "response" /\ r.status \notin {200, 400, 401, 429}) => error(502)
          /\ r.kind \in {"timeout", "request_error"} => error(502)

\* the reply is one of the failures of the external API: bad credential,
\* throttling, 5xx, a body that is malformed or cannot be decoded, timeout,
\* connection failure
UpstreamFailure(r) ==
    \/ r.kind \in {"timeout", "request_error"}
    \/ /\ r.kind = "response"
       /\ \/ r.status \in {401, 429}
          \/ r.status >= 500
          \/ /\ r.status = 200
             /\ r.content_type # "image/png"
             /\ \/ r.json.type # "object"
                \/ ~r.json.has_image
                \/ r.json.image.type # "string"
                \/ ~b64decode(r.json.image.text).ok

\* C9: every failure that originates from the external API call reaches the
\* caller as an error with status 502, never as a 500.
C9_UpstreamErrorsAre502 ==
    (ClientReturned /\ UpstreamFailure(upstream.reply)) =>
        /\ ~result.ok
        /\ result.status = 502
        /\ http_response.status = 502

\* C10: for every inpaint request the client issues at most one outbound call
\* whatever its outcome, and with the credential unset or equal to the
\* placeholder it issues none and returns the mock image.
C10_AtMostOneCall ==
    /\ upstream.calls <= 1
    /\ scenario.api_key \in {"", "demo_key_placeholder"} =>
          /\ upstream.calls = 0
          /\ pc \in {"create_response", "done"} /\ validated.valid
             /\ image_size # <<0, 0>> /\ result # NoResult
                => result = Returned(MockImage)
    /\ (scenario.api_key \notin {"", "demo_key_placeholder"}
        /\ result # NoResult) => upstream.calls = 1

\* a throttled call ended the request: one call, no second attempt
C10_Witness ==
    /\ pc = "done"
    /\ upstream.calls = 1
    /\ upstream.reply.status = 429
    /\ ~result.ok

\* the messages of the 500 responses that say nothing of their cause
GenericMessages ==
    {"Internal server error", "Internal server error during image processing",
     "Internal validation error"}

\* C11: no response sent to a client contains the text of an internal
\* exception, and every 500 carries one of the fixed generic messages.
C11_NoExceptionText ==
    /\ http_response.embeds # "exception"
    /\ http_response.status = 500 =>
          (http_response.detail \in GenericMessages /\ http_response.embeds = "")

\* the reply with another body
WithBody(r, j) == [r EXCEPT !.json = j]
\* what the client of the gateway reads of an error
ClientMessage(e) == <<e.status, e.detail, e.embeds>>

\* C12: the error message returned for an upstream failure does not depend on
\* the body of the upstream reply: the run with any other body in the reply
\* of the same status and headers gives the same client-visible message.
C12_BodyIndependent ==
    (ClientReturned /\ upstream.reply.kind = "response"
     /\ upstream.reply.status # 200) =>
        \A j \in JsonBodies \cup {JsonError("mask too dark", ""), JsonError("", "quota")} :
            ClientMessage(inpaint_image(scenario.api_key,
                                        WithBody(upstream.reply, j)).result)
            = ClientMessage(result)

\* C13: every response sent, the 429 of the rate limiter included, carries
\* X-Request-ID, equal to the request's X-Request-ID header when it has one
\* and to a generated UUID otherwise, and X-Process-Time.
C13_TracingHeaders ==
    sent.id # 0 =>
        /\ "X-Request-ID" \in DOMAIN sent.response.headers
        /\ "X-Process-Time" \in DOMAIN sent.response.headers
        /\ sent.response.headers["X-Request-ID"] =
              IF sent.x_request_id.set THEN sent.x_request_id.value
              ELSE uuid4(sent.id)

\* a step in which request r enters dispatch()
Enters(r) == reqs[r].pc = "new" /\ reqs'[r].pc # "new"
\* a step in which a request passes the rate limiter's own code
LimitedDispatch == \E r \in RequestIds : Enters(r) /\ reqs'[r].outcome # "bypass"

\* the key the claim assigns to a request with these headers and this peer
StatedKey(forwarded_for, real_ip, client) ==
    LET first == Strip(SplitFirst(forwarded_for.value))
        real == Strip(real_ip.value)
    IN  IF forwarded_for.set /\ first # <<>> THEN first
        ELSE IF real_ip.set /\ real # <<>> THEN real
        ELSE IF client.set THEN client.value
        ELSE <<"unknown">>

\* C14: the client key of a rate-limited request is the first trimmed entry
\* of X-Forwarded-For when there is one, else the trimmed X-Real-IP, else the
\* peer address, else "unknown", and it is never the empty string.
C14_ClientKey ==
    [][\A r \in RequestIds, path \in RequestPaths,
          h \in ClientChoicesOfRequests, id \in RequestIdChoices :
          (/\ Enters(r) /\ reqs'[r].outcome # "bypass"
           /\ Dispatch(r, path, h[1], h[2], h[3], id)) =>
             LET k == IF reqs'[r].pc = "done" THEN sent'.key ELSE reqs'[r].key
             IN  k = StatedKey(h[1], h[2], h[3]) /\ k # <<>>
      ]_vars


\* C15: a request to /api/health, /metrics, /docs, /redoc or /openapi.json,
\* and every request when rate limiting is disabled, is forwarded and leaves
\* the limiters and the last-cleanup time as they were, also when its
\* response comes back.
C15_BypassFrame ==
    /\ [][\A r \in RequestIds, path \in RequestPaths :
            (/\ Enters(r)
             /\ \/ ~config.enabled
                \/ path \in {"/api/health", "/metrics", "/docs", "/redoc",
                             "/openapi.json"}
             /\ \E h \in ClientChoicesOfRequests :
                   Dispatch(r, path, h[1], h[2], h[3], reqs'[r].x_request_id)) =>
               /\ reqs'[r].pc = "downstream" /\ reqs'[r].forwarded
               /\ reqs'[r].outcome = "bypass"
               /\ limiters' = limiters /\ last_cleanup' = last_cleanup
               /\ sent' = sent
         ]_vars
    /\ [][\A r \in RequestIds :
            (reqs[r].outcome = "bypass" /\ reqs'[r].pc = "done") =>
               /\ limiters' = limiters /\ last_cleanup' = last_cleanup
               /\ sent'.id = r /\ sent'.forwarded /\ sent'.response.status = 200
               /\ "X-RateLimit-Remaining" \notin DOMAIN sent'.response.headers
         ]_vars

\* with rate limiting enabled and limiters in the map, a request to an
\* allowlisted path went through and was answered
C15_Witness ==
    /\ config.enabled /\ limiters # <<>>
    /\ sent.outcome = "bypass" /\ sent.forwarded /\ sent.response.status = 200

\* C16: the X-RateLimit-Remaining header of an admitted request's response is
\* the integer part of the token count its own consume() left, whatever other
\* requests of the same key were handled while it was in flight.
C16_RemainingIsOwn ==
    [][\A r \in RequestIds :
          (reqs[r].pc = "downstream" /\ reqs[r].outcome = "admitted"
           /\ reqs'[r].pc = "done") =>
             /\ sent'.id = r
             /\ sent'.response.headers["X-RateLimit-Remaining"] =
                   ToString(IntTrunc(reqs[r].consumed_to))
      ]_vars

\* the keys a request can have
ClientKeys == {<<"a">>, <<>>, <<"unknown">>}
IdleFor(k) == now - limiters[k].last_refill

\* C17 as stated: a limiter idle for more than twice the cleanup interval is
\* eventually removed from the map unless its key becomes active again.
C17_IdleEventuallyRemoved ==
    \A k \in ClientKeys :
        (k \in DOMAIN limiters /\ IdleFor(k) > 600)
        ~> (k \notin DOMAIN limiters \/ IdleFor(k) <= 600)

\* C17: limiters are removed only by the sweep that the first rate-limited
\* request arriving more than 300 seconds after the last sweep performs; that
\* sweep removes exactly the limiters idle for more than 600 seconds and sets
\* the last-cleanup time, so right after it no limiter in the map is older.
C17_SweepOnRequest ==
    [][LET due == now - last_cleanup > 300
       IN  /\ \A k \in DOMAIN limiters :
                k \notin DOMAIN limiters' =>
                   /\ LimitedDispatch /\ due
                   /\ limiters[k].last_refill < now - 600
           /\ (LimitedDispatch /\ due) =>
                   /\ last_cleanup' = now
                   /\ \A k \in DOMAIN limiters' :
                         limiters'[k].last_refill >= now - 600
                   /\ \A k \in DOMAIN limiters :
                         limiters[k].last_refill >= now - 600 =>
                            k \in DOMAIN limiters'
           /\ ~(LimitedDispatch /\ due) => last_cleanup' = last_cleanup
      ]_vars

\* a sweep removed the limiter of a request that is still in flight, and kept
\* or created another
C17_Witness ==
    /\ \E r \in RequestIds :
          /\ reqs[r].pc = "downstream" /\ reqs[r].outcome = "admitted"
          /\ ~reqs[r].limiter.live /\ reqs[r].key \notin DOMAIN limiters
    /\ limiters # <<>> /\ last_cleanup > 600

\* the mask's colour mode check of the pipeline was reached
MaskModeChecked == "mask_mode" \in Range(checks)

\* C18: for a mask whose colour mode has neither alpha nor gray levels (RGB)
\* the strict-mode flag alone decides: with the flag on the request is
\* rejected with a validation error on field "mask", with the flag off the
\* request is not rejected because of the colour mode.
C18_StrictDecides ==
    (scenario.mask_mode = "RGB" /\ MaskModeChecked) =>
        IF scenario.strict_validation
        THEN /\ pc = "done" /\ validated.status = 422
             /\ validated.field = "mask" /\ validated.check = "mask_mode"
        ELSE ~(/\ http_response.status = 422
               /\ http_response.detail =
                    "Mask must have transparency (alpha channel) or be grayscale")

\* validate_mask_file was called
MaskFileChecked == "mask_content_type" \in Range(checks)
\* validate_mask_file raised
MaskFileRaised ==
    /\ validated.status = 422 /\ validated.field = "mask"
    /\ validated.check \in {"mask_content_type", "mask_signature",
                            "mask_length", "mask_ihdr"}

\* C19: validate_mask_file raises a validation error on field "mask" exactly
\* when the content type is not image/png, the data does not start with the
\* PNG signature, the data is shorter than 33 bytes or bytes 12 to 16 are not
\* "IHDR"; otherwise it returns.
C19_MaskFileCases ==
    MaskFileChecked =>
        (MaskFileRaised <=>
            \/ scenario.mask_content_type # "image/png"
            \/ scenario.mask_signature # "png"
            \/ scenario.mask_length < 33
            \/ ~scenario.mask_ihdr)

\* the characters str.strip() removes
StrippedChars == {" ", "\t", "\n", "\r", "VT", "FF", "FS", "GS", "RS", "US"}
\* the prompt between its first and its last character that is not stripped
TrimmedPrompt(p) ==
    LET ink == {i \in 1..Len(p) : p[i][1] \notin StrippedChars}
    IN  IF ink = {} THEN <<>>
        ELSE SubSeq(p, CHOOSE i \in ink : \A j \in ink : i <= j,
                       CHOOSE i \in ink : \A j \in ink : i >= j)
\* validate_prompt was called
PromptChecked == "prompt_empty" \in Range(checks)
\* validate_prompt raised
PromptRaised ==
    /\ validated.status = 422 /\ validated.field = "prompt"
    /\ validated.check \in Range(PromptChecks)

\* C20 as stated: validate_prompt rejects exactly the prompts that are empty
\* or whitespace-only, longer than 500 characters once trimmed, or that
\* contain one of the control characters anywhere, and returns the others
\* trimmed.
C20_RejectsRawControl ==
    PromptChecked =>
        /\ PromptRaised <=>
              \/ TrimmedPrompt(scenario.prompt) = <<>>
              \/ PromptLength(TrimmedPrompt(scenario.prompt)) > 500
              \/ \E i \in 1..Len(scenario.prompt) :
                    scenario.prompt[i][1] \in ControlChars
        /\ validated.valid => validated.prompt = TrimmedPrompt(scenario.prompt)

\* C20: validate_prompt rejects exactly the prompts that are empty or
\* whitespace-only, longer than 500 characters once trimmed, or that contain
\* one of the control characters in their trimmed text, and returns the
\* others trimmed: a control character that str.strip() removes from either
\* end (0x0B, 0x0C, 0x1C to 0x1F) is dropped, not rejected.
C20_RejectsTrimmedControl ==
    PromptChecked =>
        /\ PromptRaised <=>
              \/ TrimmedPrompt(scenario.prompt) = <<>>
              \/ PromptLength(TrimmedPrompt(scenario.prompt)) > 500
              \/ \E i \in 1..Len(TrimmedPrompt(scenario.prompt)) :
                    TrimmedPrompt(scenario.prompt)[i][1] \in ControlChars
        /\ validated.valid => validated.prompt = TrimmedPrompt(scenario.prompt)

\* a prompt of 500 characters between a space and a vertical tab was accepted
\* and returned without them
C20_Witness ==
    /\ validated.valid
    /\ HasControl(scenario.prompt)
    /\ validated.prompt # scenario.prompt
    /\ PromptLength(validated.prompt) = 500

\* the last check executed
LastCheck == checks[Len(checks)]

-----------------------------------------------------------------------------
(* Claims about sanitize_filename (SpecSanitize) *)

\* C22: for every filename, sanitize_filename returns a name that is not
\* empty, is not made only of dots, is at most 255 characters long and has
\* no "/" and no "\" in it (so no ".." component either).
C22_SafeFilename ==
    sanitized.returned =>
        /\ sanitized.name # <<>>
        /\ \E i \in 1..Len(sanitized.name) : sanitized.name[i][1] # "."
        /\ PromptLength(sanitized.name) <= 255
        /\ \A i \in 1..Len(sanitized.name) :
              sanitized.name[i][1] \notin {"/", "\\"}

-----------------------------------------------------------------------------
(* Claims about GET /api/health (SpecHealth) *)

\* C23: GET /api/health answers 200 with status "ok" or "degraded" whatever
\* the upstream does; in mock mode it says "ok" without an outbound call;
\* otherwise it makes one probe and says "ok" exactly when the probe returned
\* 200 or 404, "degraded" for any other status and any failure.
C23_HealthAlways200 ==
    health.pc = "done" =>
        /\ health.response.status = 200
        /\ health.response.body.status \in {"ok", "degraded"}
        /\ IF health_settings.nanobanana_key = ""
              \/ health_settings.nanobanana_key = "demo_key_placeholder"
           THEN health.calls = 0 /\ health.response.body.status = "ok"
           ELSE /\ health.calls = 1
                /\ health.response.body.status = "ok" <=>
                      (health.reply.kind = "response"
                       /\ (health.reply.status = 200 \/ health.reply.status = 404))

\* with a credential configured the probe was answered 404 and the service
\* reported "ok"
C23_Witness ==
    /\ health.pc = "done" /\ health.calls = 1
    /\ health.reply = ProbeResponse(404)
    /\ health.response = HealthResponse(TRUE)

-----------------------------------------------------------------------------
(* Claims about the middleware under any number of requests (SpecSlow) *)

\* the tokens key k has at this instant: those its limiter was left with and
\* those refilled since, the capacity at most and for a key never seen
StockOf(k) ==
    LET tokens == IF k \in DOMAIN limiters
                  THEN limiters[k].tokens
                         + (now - limiters[k].last_refill)
                           * config.requests_per_minute
                  ELSE config.burst_capacity * 60
    IN  IF tokens > config.burst_capacity * 60
        THEN config.burst_capacity * 60 ELSE tokens

\* C24: whatever the interleaving of the requests of one key, each step
\* handles one request, refilling and consuming in that same step; a request
\* is admitted only against a whole token of the key's stock, which it
\* removes, and nothing else adds to or takes from the stock: the requests
\* admitted for a key never outnumber the tokens it had plus those refilled.
C24_TokensConserved ==
    [][/\ Cardinality({r \in RequestIds : Enters(r)}) <= 1
       /\ \A r \in RequestIds :
             (Enters(r) /\ reqs'[r].outcome # "bypass") =>
                LET k == IF reqs'[r].pc = "done" THEN sent'.key
                         ELSE reqs'[r].key
                IN  /\ reqs'[r].outcome = "admitted" <=> StockOf(k) >= 60
                    /\ limiters'[k].tokens =
                          IF reqs'[r].outcome = "admitted"
                          THEN StockOf(k) - 60 ELSE StockOf(k)
                    /\ limiters'[k].last_refill = now
       /\ ~LimitedDispatch => limiters' = limiters
      ]_vars

C29_EvictionInvisible ==
    [][\A k \in DOMAIN limiters :
          (/\ LimitedDispatch /\ now - last_cleanup > 300
           /\ limiters[k].last_refill < now - 600) =>
             limiters[k].tokens
               + (now - limiters[k].last_refill) * limiters[k].refill_rate
             >= config.burst_capacity * 60
      ]_vars

-----------------------------------------------------------------------------
(* Claims about the sweep of the limiter map (SpecFair) *)

\* the limiters the sweep at this instant finds stale
StaleNow == {k \in DOMAIN limiters : limiters[k].last_refill < now - 600}
\* the key of the request that enters in this step
EnteringKeys ==
    {k \in DOMAIN limiters' :
        \E r \in RequestIds :
            /\ Enters(r) /\ reqs'[r].outcome # "bypass"
            /\ k = (IF reqs'[r].pc = "done" THEN sent'.key ELSE reqs'[r].key)}

\* C25: the sweep runs only in a rate-limited request that arrives more than
\* 300 seconds after the previous sweep; it removes the limiters last
\* refilled before now - 600 and no other, so that a limiter consulted in
\* the last 600 seconds stays and no staler one remains; the limiters that
\* stay keep their token count and refill time (the limiter of the request
\* itself is then consumed from).
C25_SweepExact ==
    [][IF LimitedDispatch /\ now - last_cleanup > 300
       THEN /\ last_cleanup' = now
            /\ DOMAIN limiters \ StaleNow \subseteq DOMAIN limiters'
            /\ DOMAIN limiters' \subseteq
                  (DOMAIN limiters \ StaleNow) \cup EnteringKeys
            /\ \A k \in DOMAIN limiters' : limiters'[k].last_refill >= now - 600
            /\ \A k \in DOMAIN limiters' \ EnteringKeys :
                  limiters'[k] = limiters[k]
       ELSE /\ last_cleanup' = last_cleanup
            /\ DOMAIN limiters \subseteq DOMAIN limiters'
            /\ \A k \in DOMAIN limiters \ EnteringKeys :
                  limiters'[k] = limiters[k]
      ]_vars

\* a sweep has just run and kept, with the tokens its request left, a limiter
\* consulted more than 300 and at most 600 seconds before
C25_Witness ==
    /\ last_cleanup = now /\ now > 600
    /\ \E r \in RequestIds, k \in DOMAIN limiters :
          /\ now - limiters[k].last_refill > 300
          /\ now - limiters[k].last_refill <= 600
          /\ reqs[r].pc = "downstream" /\ reqs[r].key = k
          /\ limiters[k].tokens = reqs[r].consumed_to
    /\ \E k \in DOMAIN limiters : limiters[k].last_refill = now

-----------------------------------------------------------------------------
(* Claims about the order of the stages of POST /api/edit (SpecEdit) *)

\* whether the two normalizations succeed on the uploaded files
ImageNormalizes == validate_and_process_image(scenario).ok
MaskNormalizes ==
    /\ ImageNormalizes
    /\ validate_and_process_mask(scenario,
                                 validate_and_process_image(scenario).data).ok

\* C26: the handler runs the validation pipeline, the image normalization,
\* the mask normalization, at most one outbound call and the response
\* normalization in this order: the outbound call comes only after a Valid
\* outcome and both normalizations, a 200 response only when every stage
\* succeeded, and a request that fails validation or a normalization is
\* answered 422 without an outbound call.
C26_StagesInOrder ==
    /\ upstream.calls <= 1
    /\ pc \in {"process_image", "process_mask"} => validated.valid
    /\ pc = "process_mask" => ImageNormalizes
    /\ (pc \in {"call_api", "create_response"} \/ upstream.calls > 0
        \/ result # NoResult) =>
          (validated.valid /\ ImageNormalizes /\ MaskNormalizes)
    /\ pc = "call_api" => (upstream.calls = 0 /\ result = NoResult)
    /\ pc = "create_response" => result.ok
    /\ http_response.status # 0 => pc = "done"
    /\ http_response.status = 200 =>
          /\ validated.valid /\ ImageNormalizes /\ MaskNormalizes
          /\ result.ok /\ OpensAsImage(result.data)
          /\ scenario.api_key \notin {"", "demo_key_placeholder"} =>
                (upstream.calls = 1 /\ upstream.reply.kind = "response")
    /\ (pc = "done" /\ ~(validated.valid /\ ImageNormalizes /\ MaskNormalizes)) =>
          /\ http_response.status = 422
          /\ upstream.calls = 0 /\ result = NoResult

\* a request passed the pipeline and the image normalization, its mask was
\* refused by the mask normalization and it was answered 422 with no call
C26_Witness ==
    /\ pc = "done" /\ validated.valid
    /\ ImageNormalizes /\ ~MaskNormalizes
    /\ http_response.status = 422 /\ upstream.calls = 0

-----------------------------------------------------------------------------
(* Claims about the peer of a request (Spec) *)

\* C28: the rate-limited requests admitted from one peer address never
\* outnumber the burst capacity plus the tokens refilled, whatever
\* X-Forwarded-For and X-Real-IP they carry: a request from a peer whose
\* bucket was emptied at this very instant is not admitted.
C28_PeerBound ==
    [][\A r \in RequestIds :
          (Enters(r) /\ reqs'[r].outcome = "admitted") =>
             \A path \in RequestPaths, h \in ClientChoicesOfRequests :
                (/\ h[3].set
                 /\ Dispatch(r, path, h[1], h[2], h[3], reqs'[r].x_request_id)) =>
                   ~(/\ h[3].value \in DOMAIN limiters
                     /\ limiters[h[3].value].last_refill = now
                     /\ limiters[h[3].value].tokens < 60)
      ]_vars

-----------------------------------------------------------------------------
(* Claims about the pipeline and the normalizer together (SpecEdit) *)

\* the refusals of the normalizer that are about the format, the dimension
\* bounds or the colour mode of the mask
NormalizerRefusals ==
    {"Image must be PNG or JPEG format",
     "Image dimensions must not exceed 2048x2048",
     "Image dimensions must be at least 256x256",
     "Mask must be PNG format",
     "Mask must have transparency (alpha channel) or be grayscale"}

\* C30: a request the validation pipeline accepted (Valid outcome) is never
\* refused by the image normalizer for its format, its dimension bounds or
\* the colour mode of its mask, under either setting of strict mode.
C30_NormalizerAgrees ==
    (validated.valid /\ pc = "done") =>
        ~(http_response.status = 422
          /\ http_response.detail \in NormalizerRefusals)

=============================================================================
